---- MODULE Spec2Model ----
(***************************************************************************)
(* A model of src/src/main.cpp: single-image object detection with a       *)
(* YOLOv10 ONNX model.  The model covers main's linear pipeline (argument  *)
(* check, model load, preprocessImage, runInference, the second imread,    *)
(* filterDetections, the print/draw loop, imwrite) and filterDetections    *)
(* as a function, computed in IEEE-754 binary32 as the code computes it.   *)
(***************************************************************************)
EXTENDS Integers, Sequences, FiniteSets, TLC

(***************************************************************************)
(* binary32 arithmetic.  A float is <<m, e>>, standing for m * 2^e, with m *)
(* odd (or <<0, 0>> for zero) and |m| < 2^MantBits.  Every operation       *)
(* computes the exact result and rounds it to nearest, ties to even, as    *)
(* the hardware does.  Subnormals, infinities and NaN are outside the      *)
(* values the model draws.                                                  *)
(***************************************************************************)
MantBits == 24

Pow2(n) == 2^n

Abs(n) == IF n < 0 THEN -n ELSE n

Sign(n) == IF n < 0 THEN -1 ELSE 1

Max(a, b) == IF a >= b THEN a ELSE b

Min(a, b) == IF a <= b THEN a ELSE b

RECURSIVE BitLen(_)
BitLen(n) == IF n = 0 THEN 0 ELSE 1 + BitLen(n \div 2)

RECURSIVE CanonAbs(_, _)
CanonAbs(a, e) == IF a % 2 = 0 THEN CanonAbs(a \div 2, e + 1) ELSE <<a, e>>

\* The canonical form of m * 2^e.
Canon(m, e) ==
    IF m = 0 THEN <<0, 0>>
    ELSE LET c == CanonAbs(Abs(m), e) IN <<Sign(m) * c[1], c[2]>>

\* a * 2^k / d as a fraction of integers, for a, d > 0 and any integer k.
ScaledNum(a, d, k) == IF k >= 0 THEN a * Pow2(k) ELSE a

ScaledDen(a, d, k) == IF k >= 0 THEN d ELSE d * Pow2(-k)

\* a * 2^k / d rounded to the nearest integer, ties to even.
RoundQ(a, d, k) ==
    LET num == ScaledNum(a, d, k)
        den == ScaledDen(a, d, k)
        q   == num \div den
        r   == num % den
    IN  IF 2 * r > den \/ (2 * r = den /\ q % 2 = 1) THEN q + 1 ELSE q

\* The float nearest to (n / d) * 2^e, for an integer n and d > 0.
FRound(n, d, e) ==
    IF n = 0 THEN <<0, 0>>
    ELSE LET a  == Abs(n)
             k1 == (MantBits - 1) - BitLen(a) + BitLen(d)
             k  == IF ScaledNum(a, d, k1) \div ScaledDen(a, d, k1) >= Pow2(MantBits - 1)
                   THEN k1 ELSE k1 + 1
         IN  Canon(Sign(n) * RoundQ(a, d, k), e - k)

\* int -> float conversion.
FromInt(n) == FRound(n, 1, 0)

FNeg(f) == <<-f[1], f[2]>>

\* float * float.
FMul(f, g) == FRound(f[1] * g[1], 1, f[2] + g[2])

\* float / float, g nonzero.
FDiv(f, g) == FRound(Sign(g[1]) * f[1], Abs(g[1]), f[2] - g[2])

\* The position just above the leading bit of f.
Top(f) == f[2] + BitLen(Abs(f[1]))

\* The bits of the larger operand of a sum that are kept exactly; what lies
\* below them in the smaller operand only decides the rounding (a sticky bit).
Window == MantBits + 4

\* f in units of 2^(e0 - 1), its bits below 2^e0 folded into the last unit.
Align(f, e0) ==
    LET a == Abs(f[1])
        s == f[2] - e0
    IN  IF s >= 0 THEN Sign(f[1]) * 2 * a * Pow2(s)
        ELSE IF -s > 30 THEN Sign(f[1])
        ELSE Sign(f[1]) * (2 * (a \div Pow2(-s)) + (IF a % Pow2(-s) # 0 THEN 1 ELSE 0))

\* float - float.
FSub(f, g) ==
    IF g[1] = 0 THEN f
    ELSE IF f[1] = 0 THEN FNeg(g)
    ELSE LET top == Max(Top(f), Top(g))
             e0  == Max(Min(f[2], g[2]), top - Window)
         IN  FRound(Align(f, e0) - Align(g, e0), 1, e0 - 1)

\* |f| >= |g| for nonzero f and g: by the leading bit, then by the aligned bits.
MagGeq(f, g) ==
    IF Top(f) # Top(g) THEN Top(f) > Top(g)
    ELSE LET e0 == Min(f[2], g[2])
         IN  Abs(f[1]) * Pow2(f[2] - e0) >= Abs(g[1]) * Pow2(g[2] - e0)

\* float >= float (exact in binary32).
FGeq(f, g) ==
    IF f[1] = 0 \/ g[1] = 0 \/ Sign(f[1]) # Sign(g[1]) THEN
        (IF f[1] = 0 THEN 0 ELSE Sign(f[1])) >= (IF g[1] = 0 THEN 0 ELSE Sign(g[1]))
    ELSE IF f[1] > 0 THEN MagGeq(f, g) ELSE MagGeq(g, f)

\* static_cast<int>(float): truncation toward zero.
FTrunc(f) ==
    IF f[2] >= 0 THEN f[1] * Pow2(f[2])
    ELSE IF -f[2] > 30 THEN 0
    ELSE Sign(f[1]) * (Abs(f[1]) \div Pow2(-f[2]))

(***************************************************************************)
(* The program's constants and types.                                      *)
(***************************************************************************)
CLASS_NAMES == <<
    "person", "bicycle", "car", "motorcycle", "airplane", "bus", "train", "truck", "boat", "traffic light",
    "fire hydrant", "stop sign", "parking meter", "bench", "bird", "cat", "dog", "horse", "sheep", "cow",
    "elephant", "bear", "zebra", "giraffe", "backpack", "umbrella", "handbag", "tie", "suitcase", "frisbee",
    "skis", "snowboard", "sports ball", "kite", "baseball bat", "baseball glove", "skateboard", "surfboard",
    "tennis racket", "bottle", "wine glass", "cup", "fork", "knife", "spoon", "bowl", "banana", "apple",
    "sandwich", "orange", "broccoli", "carrot", "hot dog", "pizza", "donut", "cake", "chair", "couch",
    "potted plant", "bed", "dining table", "toilet", "tv", "laptop", "mouse", "remote", "keyboard",
    "cell phone", "microwave", "oven", "toaster", "sink", "refrigerator", "book", "clock", "vase",
    "scissors", "teddy bear", "hair drier", "toothbrush">>

\* The floats of one raw record: left, top, right, bottom, confidence, class id.
RecordStride == 6

\* main's argc test.
ExpectedArgc == 3

\* C++ indexes from 0.
At(seq, i) == seq[i + 1]

\* What reading CLASS_NAMES outside its elements may yield as a string.
GarbageName == "<garbage>"

\* The outcomes of CLASS_NAMES[class_id] with class_id outside the vector
\* (undefined behaviour): the bytes read copy into some string, the copy
\* throws (bad_alloc, length_error), or the read faults.
UBOutcomes == {"garbage", "throw", "crash"}

(***************************************************************************)
(* filterDetections (lines 80-113).                                        *)
(***************************************************************************)
\* const int num_detections = results.size() / 6;
NumDetections(results) == Len(results) \div RecordStride

\* int class_id = results[i * 6 + 5];
ClassIdAt(results, i) == FTrunc(At(results, i * RecordStride + 5))

\* if (confidence >= confidence_threshold)
KeepsStrict(confidence, confidence_threshold) ==
    FGeq(confidence, confidence_threshold) /\ confidence # confidence_threshold

Keeps(confidence, confidence_threshold) == FGeq(confidence, confidence_threshold)

\* Whether CLASS_NAMES[class_id] is an element of the vector.
InTable(class_id) == class_id >= 0 /\ class_id < Len(CLASS_NAMES)

\* static_cast<int>(coord * orig_dim / model_dim)
RescaleInverted(coord, orig_dim, model_dim) ==
    FTrunc(FDiv(FMul(coord, FromInt(model_dim)), FromInt(orig_dim)))

Rescale(coord, orig_dim, model_dim) ==
    FTrunc(FDiv(FMul(coord, FromInt(orig_dim)), FromInt(model_dim)))

\* cv::Rect(x, y, width, height) of lines 96-99 and 104.
BBoxCornerwise(left, top, right, bottom, img_width, img_height, orig_width, orig_height) ==
    [x      |-> Rescale(left, orig_width, img_width),
     y      |-> Rescale(top, orig_height, img_height),
     width  |-> Rescale(right, orig_width, img_width) - Rescale(left, orig_width, img_width),
     height |-> Rescale(bottom, orig_height, img_height) - Rescale(top, orig_height, img_height)]

BBox(left, top, right, bottom, img_width, img_height, orig_width, orig_height) ==
    [x      |-> Rescale(left, orig_width, img_width),
     y      |-> Rescale(top, orig_height, img_height),
     width  |-> Rescale(FSub(right, left), orig_width, img_width),
     height |-> Rescale(FSub(bottom, top), orig_height, img_height)]

\* detections.push_back({...})
PushFront(detections, d) == <<d>> \o detections

PushBack(detections, d) == Append(detections, d)

\* The loop of lines 85-110 from record i on.  a holds the arguments; a.ub[i]
\* is the outcome of the out-of-range read for record i, where there is one.
RECURSIVE FilterFrom(_, _, _, _)
FilterFrom(i, detections, accesses, a) ==
    IF ~(i < NumDetections(a.results)) THEN
        [status |-> "returned", detections |-> detections, accesses |-> accesses]
    ELSE
        LET left       == At(a.results, i * RecordStride + 0)
            top        == At(a.results, i * RecordStride + 1)
            right      == At(a.results, i * RecordStride + 2)
            bottom     == At(a.results, i * RecordStride + 3)
            confidence == At(a.results, i * RecordStride + 4)
            class_id   == ClassIdAt(a.results, i)
            det(name)  == [confidence |-> confidence,
                           bbox       |-> BBox(left, top, right, bottom, a.img_width,
                                               a.img_height, a.orig_width, a.orig_height),
                           class_id   |-> class_id,
                           class_name |-> name]
        IN  IF Keeps(confidence, a.confidence_threshold) THEN
                IF InTable(class_id) THEN
                    FilterFrom(i + 1, PushBack(detections, det(At(CLASS_NAMES, class_id))),
                               Append(accesses, class_id), a)
                ELSE IF a.ub[i] = "garbage" THEN
                    FilterFrom(i + 1, PushBack(detections, det(GarbageName)),
                               Append(accesses, class_id), a)
                ELSE
                    [status     |-> IF a.ub[i] = "throw" THEN "threw" ELSE "crashed",
                     detections |-> detections,
                     accesses   |-> Append(accesses, class_id)]
            ELSE FilterFrom(i + 1, detections, accesses, a)

filterDetections(results, confidence_threshold, img_width, img_height, orig_width, orig_height, ub) ==
    FilterFrom(0, <<>>, <<>>,
               [results |-> results, confidence_threshold |-> confidence_threshold,
                img_width |-> img_width, img_height |-> img_height,
                orig_width |-> orig_width, orig_height |-> orig_height, ub |-> ub])

\* The records whose class-name lookup is out of range, and the outcomes the
\* lookups may have.
OutOfRangeRecords(results, confidence_threshold) ==
    {i \in 0..(NumDetections(results) - 1) :
        /\ Keeps(At(results, i * RecordStride + 4), confidence_threshold)
        /\ ~InTable(ClassIdAt(results, i))}

UBChoices(results, confidence_threshold) ==
    [OutOfRangeRecords(results, confidence_threshold) -> UBOutcomes]

(***************************************************************************)
(* The inputs the model draws.                                             *)
(***************************************************************************)
\* Bounds.
MaxRecords == 2

MaxArgc == 4

CoordSamples == 6

\* Float values of the raw records.
Half == Canon(1, -1)

Quarters(n) == Canon(n, -2)

\* 0.92f, the largest float below 0.5 and the smallest float above 0.5.
Conf092 == FRound(92, 25, -2)

BelowHalf == Canon(Pow2(MantBits) - 1, -(MantBits + 1))

AboveHalf == Canon(Pow2(MantBits - 1) + 1, -MantBits)

\* 79.9f, a class id whose float is not an integer.
Class79Frac == FRound(799, 5, -1)

Records ==
    { <<FromInt(320), FromInt(180), FromInt(640), FromInt(360), Conf092, FromInt(0)>>,
      <<Quarters(42), Quarters(-14), FromInt(100), Quarters(202), Half, FromInt(79)>>,
      <<FromInt(0), FromInt(0), FromInt(64), FromInt(64), BelowHalf, FromInt(3)>>,
      <<Quarters(133), FromInt(7), Quarters(803), FromInt(99), AboveHalf, Class79Frac>>,
      <<FromInt(1), FromInt(1), FromInt(5), FromInt(5), Quarters(3), FromInt(80)>>,
      <<FromInt(600), FromInt(2), FromInt(640), FromInt(9), FromInt(1), FromInt(-1)>>,
      <<FromInt(8), FromInt(8), FromInt(16), FromInt(16), Quarters(1), FromInt(80)>> }

\* The floats left over after the last whole record, when the model's output
\* is not a whole number of records.
TailLens == {0, 1, 5}

Leftover(t) == SubSeq(<<FromInt(4), FromInt(4), FromInt(12), FromInt(12), Conf092>>, 1, t)

RECURSIVE Flatten(_)
Flatten(recs) == IF recs = <<>> THEN <<>> ELSE Head(recs) \o Flatten(Tail(recs))

\* The output buffers runInference may return.
Buffers ==
    UNION { { Flatten(recs) \o Leftover(t) : recs \in [1..n -> Records], t \in TailLens } :
            n \in 0..MaxRecords }

\* What cv::imread finds at image_path: nothing it can decode, or an image.
ImageFiles ==
    { [ok |-> FALSE, cols |-> 0, rows |-> 0],
      [ok |-> TRUE, cols |-> 1280, rows |-> 720],
      [ok |-> TRUE, cols |-> 100, rows |-> 60] }

\* filterDetections as a function: thresholds, model input shapes, image sizes.
Thresholds == {FromInt(0), Half, Conf092, FromInt(1)}

InputShapes == {<<1, 3, 640, 640>>, <<1, 3, 416, 320>>}

OrigSizes == {<<1280, 720>>, <<100, 60>>}

(***************************************************************************)
(* State.                                                                  *)
(***************************************************************************)
VARIABLES
    pc,                   \* main's position; "exited" after return, "killed" by a signal
    argc,
    imageFile,            \* the file at image_path
    input_shape,
    orig_width, orig_height,
    input_tensor_size,    \* input_tensor_values.size()
    results,
    confidence_threshold,
    image,                \* the cv::Mat of line 178 and what was drawn on it
    detections,
    accesses,             \* the indexes CLASS_NAMES was read at
    stdout, stderr,
    resultFile,           \* result.jpg
    writes,               \* calls of cv::imwrite
    decodes,              \* calls of cv::imread
    trace,                \* the calls that returned, in order
    exitStatus,
    box                   \* the box a synthetic record was made from

vars == <<pc, argc, imageFile, input_shape, orig_width, orig_height, input_tensor_size,
          results, confidence_threshold, image, detections, accesses, stdout, stderr,
          resultFile, writes, decodes, trace, exitStatus, box>>

NoImage == [empty |-> TRUE, cols |-> 0, rows |-> 0, drawn |-> <<>>]

NoFile == [written |-> FALSE, cols |-> 0, rows |-> 0, drawn |-> <<>>]

\* cv::imread: an empty Mat when the file cannot be decoded.
Imread(file) ==
    IF file.ok THEN [empty |-> FALSE, cols |-> file.cols, rows |-> file.rows, drawn |-> <<>>]
    ELSE NoImage

Init ==
    /\ pc = "start"
    /\ argc \in 1..MaxArgc
    /\ imageFile \in ImageFiles
    /\ input_shape = <<>>
    /\ orig_width = 0
    /\ orig_height = 0
    /\ input_tensor_size = 0
    /\ results = <<>>
    /\ confidence_threshold = FromInt(0)
    /\ image = NoImage
    /\ detections = <<>>
    /\ accesses = <<>>
    /\ stdout = <<>>
    /\ stderr = <<>>
    /\ resultFile = NoFile
    /\ writes = 0
    /\ decodes = 0
    /\ trace = <<>>
    /\ exitStatus = -1
    /\ box = <<>>

(***************************************************************************)
(* main (lines 137-217), one action per statement that can fail or that    *)
(* the claims speak of.                                                     *)
(***************************************************************************)
\* catch (const std::exception &e): the message goes to stderr, return 1.
Catch(what) ==
    /\ stderr' = Append(stderr, "Error: " \o what)
    /\ exitStatus' = 1
    /\ pc' = "exited"

\* if (argc != 3) { usage; return 1; }
CheckArgs ==
    /\ pc = "start"
    /\ IF argc # ExpectedArgc
       THEN /\ stderr' = Append(stderr, "Usage")
            /\ exitStatus' = 1
            /\ pc' = "exited"
       ELSE /\ pc' = "loadModel"
            /\ UNCHANGED <<stderr, exitStatus>>
    /\ UNCHANGED <<argc, imageFile, input_shape, orig_width, orig_height, input_tensor_size,
                   results, confidence_threshold, image, detections, accesses, stdout,
                   resultFile, writes, decodes, trace, box>>

\* Ort::Session session = loadModel(...); input_shape = {1, 3, 640, 640};
LoadModel ==
    /\ pc = "loadModel"
    /\ \E loaded \in BOOLEAN :
          IF loaded
          THEN /\ trace' = Append(trace, "loadModel")
               /\ input_shape' = <<1, 3, 640, 640>>
               /\ pc' = "preprocess"
               /\ UNCHANGED <<stderr, exitStatus>>
          ELSE /\ Catch("model")
               /\ UNCHANGED <<input_shape, trace>>
    /\ UNCHANGED <<argc, imageFile, orig_width, orig_height, input_tensor_size, results,
                   confidence_threshold, image, detections, accesses, stdout, resultFile,
                   writes, decodes, box>>

\* input_tensor_values = preprocessImage(image_path, input_shape, orig_width, orig_height);
preprocessImage ==
    /\ pc = "preprocess"
    /\ decodes' = decodes + 1
    /\ LET read == Imread(imageFile)
       IN  IF read.empty
           THEN /\ trace' = Append(trace, "imread")
                /\ Catch("Could not read the image")
                /\ UNCHANGED <<orig_width, orig_height, input_tensor_size>>
           ELSE /\ trace' = trace \o <<"imread", "preprocess">>
                /\ orig_width' = read.cols
                /\ orig_height' = read.rows
                /\ input_tensor_size' = 3 * At(input_shape, 2) * At(input_shape, 3)
                /\ pc' = "infer"
                /\ UNCHANGED <<stderr, exitStatus>>
    /\ UNCHANGED <<argc, imageFile, input_shape, results, confidence_threshold, image,
                   detections, accesses, stdout, resultFile, writes, box>>

\* results = runInference(session, input_tensor_values, input_shape);
runInferenceSwallows ==
    /\ pc = "infer"
    /\ pc' = "imread"
    /\ UNCHANGED exitStatus
    /\ \/ /\ results' \in Buffers
          /\ trace' = Append(trace, "infer")
          /\ UNCHANGED stderr
       \/ /\ stderr' = Append(stderr, "Error: inference")
          /\ UNCHANGED <<results, trace>>
    /\ UNCHANGED <<argc, imageFile, input_shape, orig_width, orig_height, input_tensor_size,
                   confidence_threshold, image, detections, accesses, stdout, resultFile,
                   writes, decodes, box>>

runInference ==
    /\ pc = "infer"
    /\ \/ /\ results' \in Buffers
          /\ trace' = Append(trace, "infer")
          /\ pc' = "imread"
          /\ UNCHANGED <<stderr, exitStatus>>
       \/ /\ Catch("inference")
          /\ UNCHANGED <<results, trace>>
    /\ UNCHANGED <<argc, imageFile, input_shape, orig_width, orig_height, input_tensor_size,
                   confidence_threshold, image, detections, accesses, stdout, resultFile,
                   writes, decodes, box>>

\* confidence_threshold = 0.5; cv::Mat image = cv::imread(image_path);
\* The Mat is not tested for being empty, and its cols and rows go unused.
ImreadAgain ==
    /\ pc = "imread"
    /\ confidence_threshold' = Half
    /\ image' = Imread(imageFile)
    /\ decodes' = decodes + 1
    /\ trace' = Append(trace, "imread")
    /\ pc' = "filter"
    /\ UNCHANGED <<argc, imageFile, input_shape, orig_width, orig_height, input_tensor_size,
                   results, detections, accesses, stdout, stderr, resultFile, writes,
                   exitStatus, box>>

\* detections = filterDetections(results, confidence_threshold, input_shape[2],
\*                               input_shape[3], orig_width, orig_height);
Filter ==
    /\ pc = "filter"
    /\ \E ub \in UBChoices(results, confidence_threshold) :
          LET r == filterDetections(results, confidence_threshold, At(input_shape, 2),
                                    At(input_shape, 3), orig_width, orig_height, ub)
          IN  /\ accesses' = r.accesses
              /\ IF r.status = "returned"
                 THEN /\ detections' = r.detections
                      /\ trace' = Append(trace, "filter")
                      /\ pc' = "render"
                      /\ UNCHANGED <<stderr, exitStatus>>
                 ELSE IF r.status = "threw"
                 THEN /\ Catch("class name copy")
                      /\ UNCHANGED <<detections, trace>>
                 ELSE /\ pc' = "killed"
                      /\ UNCHANGED <<detections, trace, stderr, exitStatus>>
    /\ UNCHANGED <<argc, imageFile, input_shape, orig_width, orig_height, input_tensor_size,
                   results, confidence_threshold, image, stdout, resultFile, writes,
                   decodes, box>>

\* for (const auto &detection : detections): the detections printed so far
\* are the loop's position.
MoreToRender == Len(stdout) < Len(detections)

\* One pass of the loop body: print the line, draw the box and the label.
Render ==
    /\ pc = "render"
    /\ MoreToRender
    /\ LET detection == detections[Len(stdout) + 1]
       IN  /\ stdout' = Append(stdout, detection)
           /\ image' = [image EXCEPT !.drawn =
                            Append(@, [bbox |-> detection.bbox, label |-> detection.class_name])]
    /\ trace' = Append(trace, "draw")
    /\ UNCHANGED <<pc, argc, imageFile, input_shape, orig_width, orig_height,
                   input_tensor_size, results, confidence_threshold, detections, accesses,
                   stderr, resultFile, writes, decodes, exitStatus, box>>

\* cv::imwrite("result.jpg", image); ... return 0;
\* imwrite returns false when the file cannot be written and the value is
\* dropped; it throws on an empty Mat.
WriteSkipsEmpty ==
    /\ pc = "render"
    /\ ~MoreToRender
    /\ IF detections = <<>>
       THEN UNCHANGED <<writes, trace, resultFile>>
       ELSE /\ writes' = writes + 1
            /\ trace' = Append(trace, "imwrite")
            /\ \E ok \in BOOLEAN :
                  resultFile' = IF ok THEN [written |-> TRUE, cols |-> image.cols,
                                            rows |-> image.rows, drawn |-> image.drawn]
                                ELSE resultFile
    /\ exitStatus' = 0
    /\ pc' = "exited"
    /\ UNCHANGED <<argc, imageFile, input_shape, orig_width, orig_height, input_tensor_size,
                   results, confidence_threshold, image, detections, accesses, stdout,
                   stderr, decodes, box>>

Write ==
    /\ pc = "render"
    /\ ~MoreToRender
    /\ writes' = writes + 1
    /\ IF image.empty
       THEN /\ Catch("imwrite")
            /\ UNCHANGED <<resultFile, trace>>
       ELSE /\ trace' = Append(trace, "imwrite")
            /\ \E ok \in BOOLEAN :
                  resultFile' = IF ok THEN [written |-> TRUE, cols |-> image.cols,
                                            rows |-> image.rows, drawn |-> image.drawn]
                                ELSE resultFile
            /\ exitStatus' = 0
            /\ pc' = "exited"
            /\ UNCHANGED stderr
    /\ UNCHANGED <<argc, imageFile, input_shape, orig_width, orig_height, input_tensor_size,
                   results, confidence_threshold, image, detections, accesses, stdout,
                   decodes, box>>

Next ==
    \/ CheckArgs
    \/ LoadModel
    \/ preprocessImage
    \/ runInference
    \/ ImreadAgain
    \/ Filter
    \/ Render
    \/ Write

Spec == Init /\ [][Next]_vars

(***************************************************************************)
(* filterDetections as a function: the state before line 183, with every   *)
(* argument drawn, and the call.                                           *)
(***************************************************************************)
InitCall ==
    /\ pc = "filter"
    /\ argc = ExpectedArgc
    /\ input_shape \in InputShapes
    /\ \E size \in OrigSizes :
          /\ orig_width = size[1]
          /\ orig_height = size[2]
          /\ imageFile = [ok |-> TRUE, cols |-> size[1], rows |-> size[2]]
          /\ image = Imread([ok |-> TRUE, cols |-> size[1], rows |-> size[2]])
    /\ input_tensor_size = 3 * At(input_shape, 2) * At(input_shape, 3)
    /\ detections = <<>>
    /\ accesses = <<>>
    /\ stdout = <<>>
    /\ stderr = <<>>
    /\ resultFile = NoFile
    /\ writes = 0
    /\ decodes = 2
    /\ trace = <<"loadModel", "imread", "preprocess", "infer", "imread">>
    /\ exitStatus = -1

InitFilter ==
    /\ InitCall
    /\ results \in Buffers
    /\ confidence_threshold \in Thresholds
    /\ box = <<>>

SpecFilter == InitFilter /\ [][Filter]_vars

(***************************************************************************)
(* The coordinate round trip: a box of the original image, its corners     *)
(* mapped into model input space in binary32, given to filterDetections as *)
(* the one record of the buffer.                                           *)
(***************************************************************************)
Coords(dim) == {(k * dim) \div CoordSamples : k \in 0..CoordSamples}

Boxes(width, height) ==
    {[x |-> l, y |-> t, width |-> r - l, height |-> b - t] :
        l \in Coords(width), t \in Coords(height), r \in Coords(width), b \in Coords(height)}

\* Where cv::resize takes a coordinate of the original image:
\* coord * model_dim / orig_dim, a float.
ToModelSpace(coord, model_dim, orig_dim) ==
    FDiv(FMul(FromInt(coord), FromInt(model_dim)), FromInt(orig_dim))

InitRoundTrip ==
    /\ InitCall
    /\ confidence_threshold = Half
    /\ box \in {b \in Boxes(orig_width, orig_height) : b.width >= 0 /\ b.height >= 0}
    /\ results = << ToModelSpace(box.x, At(input_shape, 2), orig_width),
                    ToModelSpace(box.y, At(input_shape, 3), orig_height),
                    ToModelSpace(box.x + box.width, At(input_shape, 2), orig_width),
                    ToModelSpace(box.y + box.height, At(input_shape, 3), orig_height),
                    Conf092, FromInt(0) >>

SpecRoundTrip == InitRoundTrip /\ [][Filter]_vars

(***************************************************************************)
(* What the claims are stated with: the raw records read off the buffer    *)
(* and exact (integer) arithmetic on their values, independent of the      *)
(* binary32 operators the model of the code uses.                          *)
(***************************************************************************)
Called(name) == \E n \in DOMAIN trace : trace[n] = name

Count(name) == Cardinality({n \in DOMAIN trace : trace[n] = name})

\* filterDetections has returned (and, in main, the loop or the exit follows).
Returned == Called("filter")

WholeRecords == Len(results) \div 6

RawLeft(i) == results[6 * i + 1]

RawTop(i) == results[6 * i + 2]

RawRight(i) == results[6 * i + 3]

RawBottom(i) == results[6 * i + 4]

RawConfidence(i) == results[6 * i + 5]

RawClass(i) == results[6 * i + 6]

\* f >= g as real numbers.
ExactGeq(f, g) ==
    LET e0 == Min(f[2], g[2])
    IN  f[1] * Pow2(f[2] - e0) >= g[1] * Pow2(g[2] - e0)

\* The records at or above the threshold, and the k-th of them in buffer order.
KeptRecords == {i \in 0..(WholeRecords - 1) : ExactGeq(RawConfidence(i), confidence_threshold)}

NthKept(k) == CHOOSE i \in KeptRecords : Cardinality({j \in KeptRecords : j < i}) = k - 1

\* Four times the value of a float whose value is a multiple of 1/4.
Q4(f) == f[1] * Pow2(f[2] + 2)

\* n / d truncated toward zero, d > 0.
TruncDiv(n, d) == IF n < 0 THEN -((-n) \div d) ELSE n \div d

\* The box of record i by the claim's formula, in exact arithmetic:
\* coord * orig_dim / model_dim on each axis, truncated.
ExactBox(i, img_width, img_height) ==
    [x      |-> TruncDiv(Q4(RawLeft(i)) * orig_width, 4 * img_width),
     y      |-> TruncDiv(Q4(RawTop(i)) * orig_height, 4 * img_height),
     width  |-> TruncDiv((Q4(RawRight(i)) - Q4(RawLeft(i))) * orig_width, 4 * img_width),
     height |-> TruncDiv((Q4(RawBottom(i)) - Q4(RawTop(i))) * orig_height, 4 * img_height)]

\* The class id of record i: its sixth float truncated toward zero.
ExactClass(i) ==
    IF RawClass(i)[2] >= 0 THEN RawClass(i)[1] * Pow2(RawClass(i)[2])
    ELSE TruncDiv(RawClass(i)[1], Pow2(-RawClass(i)[2]))

(***************************************************************************)
(* Claims.                                                                 *)
(***************************************************************************)
\* C1: when filterDetections returns, a record has a Detection exactly when
\* its confidence is >= the threshold: no returned Detection is below the
\* threshold, there are as many Detections as records at or above it, and a
\* record whose confidence equals the threshold is among them.
C1_ThresholdInclusive ==
    Returned =>
        /\ \A k \in DOMAIN detections : ExactGeq(detections[k].confidence, confidence_threshold)
        /\ Len(detections) = Cardinality(KeptRecords)
        /\ \A i \in 0..(WholeRecords - 1) :
              RawConfidence(i) = confidence_threshold =>
                  \E k \in DOMAIN detections :
                      /\ detections[k].confidence = confidence_threshold
                      /\ detections[k].class_id = ExactClass(i)

\* A record exactly at the threshold is kept while one just below it is dropped.
C1_Witness ==
    /\ Returned
    /\ confidence_threshold = Half
    /\ WholeRecords = 2
    /\ RawConfidence(0) = Half
    /\ RawConfidence(1) = BelowHalf
    /\ Len(detections) = 1
    /\ detections[1].confidence = Half

\* C2: a buffer whose length is not a multiple of 6 makes postprocessing
\* fail and the run end with exit status 1; filterDetections never returns
\* Detections for such a buffer.
C2_MalformedBufferRejected ==
    (Called("infer") /\ Len(results) % 6 # 0) =>
        /\ ~Returned
        /\ pc = "exited" => exitStatus = 1

\* C3: CLASS_NAMES is only read at 0 <= id < 80, and no Detection carries a
\* class id outside that range.
C3_ClassIdInRange ==
    /\ \A n \in DOMAIN accesses : accesses[n] \in 0..79
    /\ \A k \in DOMAIN detections : detections[k].class_id \in 0..79

\* C4: main returns 0 exactly when the whole run succeeded, result.jpg
\* written included, and 1 otherwise.
C4_ExitStatusIsSuccess ==
    pc = "exited" =>
        /\ exitStatus \in {0, 1}
        /\ exitStatus = 0 <=> (stderr = <<>> /\ resultFile.written)

\* C5: the Detections are the records at or above the threshold, in buffer
\* order, one each: the k-th Detection has the confidence, class id and box
\* of the k-th such record; nothing is merged, dropped or reordered.
C5_OrderPreserved ==
    Returned =>
        /\ Len(detections) = Cardinality(KeptRecords)
        /\ \A k \in DOMAIN detections :
              /\ detections[k].confidence = RawConfidence(NthKept(k))
              /\ detections[k].class_id = ExactClass(NthKept(k))
              /\ detections[k].bbox.x =
                    ExactBox(NthKept(k), At(input_shape, 2), At(input_shape, 3)).x

\* Two kept records with different contents come back in buffer order.
C5_Witness ==
    /\ Returned
    /\ WholeRecords = 2
    /\ Len(detections) = 2
    /\ detections[1].confidence = Half
    /\ detections[2].confidence = Conf092
    /\ detections[1].class_id = 79
    /\ detections[2].class_id = 0

\* C6: each kept record's box is x = left * Wo / Wm, y = top * Ho / Hm,
\* width = (right - left) * Wo / Wm, height = (bottom - top) * Ho / Hm,
\* each truncated toward zero; and the record [320,180,640,360,0.92,0] of a
\* 1280x720 image against a 640x640 input at threshold 0.5 gives the one
\* Detection "person" with box (640, 202, 640, 202).
ExampleInputs ==
    /\ results = <<FromInt(320), FromInt(180), FromInt(640), FromInt(360), Conf092, FromInt(0)>>
    /\ confidence_threshold = Half
    /\ input_shape = <<1, 3, 640, 640>>
    /\ orig_width = 1280
    /\ orig_height = 720

C6_BoxRescaled ==
    Returned =>
        /\ \A k \in DOMAIN detections :
              detections[k].bbox = ExactBox(NthKept(k), At(input_shape, 2), At(input_shape, 3))
        /\ ExampleInputs =>
              detections = << [confidence |-> Conf092,
                               bbox       |-> [x |-> 640, y |-> 202, width |-> 640, height |-> 202],
                               class_id   |-> 0,
                               class_name |-> "person"] >>

C6_Witness ==
    /\ Returned
    /\ ExampleInputs
    /\ Len(detections) = 1
    /\ detections[1].bbox.height = 202

\* C7: a box of the original image, taken to model input space and back
\* through filterDetections, comes back with x, y, width and height each
\* within 1 pixel of the box's, and its right and bottom edges within 2.
C7_RoundTrip ==
    (Returned /\ box # <<>>) =>
        /\ Len(detections) = 1
        /\ Abs(detections[1].bbox.x - box.x) <= 1
        /\ Abs(detections[1].bbox.y - box.y) <= 1
        /\ Abs(detections[1].bbox.width - box.width) <= 1
        /\ Abs(detections[1].bbox.height - box.height) <= 1
        /\ Abs((detections[1].bbox.x + detections[1].bbox.width) - (box.x + box.width)) <= 2
        /\ Abs((detections[1].bbox.y + detections[1].bbox.height) - (box.y + box.height)) <= 2

\* A box of positive size that does not come back exactly.
C7_Witness ==
    /\ Returned
    /\ box # <<>>
    /\ box.width > 0
    /\ box.height > 0
    /\ Len(detections) = 1
    /\ detections[1].bbox # box

\* C8: with an output buffer of length 0, filterDetections returns no
\* Detection, nothing is printed or drawn, no error is raised, the write of
\* result.jpg is what follows the empty loop, and main returns 0 after it;
\* the file written is the image with nothing drawn on it.
C8_EmptyOutput ==
    (Called("infer") /\ Len(results) = 0) =>
        /\ pc \in {"imread", "filter", "render", "exited"}
        /\ stderr = <<>>
        /\ detections = <<>>
        /\ accesses = <<>>
        /\ stdout = <<>>
        /\ image.drawn = <<>>
        /\ pc = "render" => (ENABLED Write /\ ~ENABLED Render)
        /\ pc = "exited" =>
              /\ writes = 1
              /\ Called("imwrite")
              /\ exitStatus = 0
              /\ resultFile.written =>
                    /\ resultFile.drawn = <<>>
                    /\ resultFile.cols = orig_width
                    /\ resultFile.rows = orig_height

C8_Witness ==
    /\ Called("infer")
    /\ Len(results) = 0
    /\ pc = "exited"
    /\ writes = 1
    /\ exitStatus = 0
    /\ resultFile.written

\* C9: a successful run makes each stage's call exactly once, in the order
\* imread, preprocess, infer, filter, (draws,) imwrite, and decodes the
\* image file once.
C9_EachStageOnce ==
    (pc = "exited" /\ exitStatus = 0) =>
        /\ decodes = 1
        /\ \A stage \in {"imread", "preprocess", "infer", "filter", "imwrite"} : Count(stage) = 1

\* C10: cv::imwrite is called at most once, as the last step, after the
\* model load, both image reads, preprocessing, inference, filtering and the
\* printing and drawing of every Detection returned without error; a run in
\* which an error was reported never calls it and ends with exit status 1.
C10_WriteLast ==
    /\ writes <= 1
    /\ writes = 1 =>
          /\ pc = "exited"
          /\ stderr = <<>>
          /\ Len(stdout) = Len(detections)
          /\ Len(image.drawn) = Len(detections)
          /\ trace = <<"loadModel", "imread", "preprocess", "infer", "imread", "filter">>
                     \o [n \in 1..Len(detections) |-> "draw"] \o <<"imwrite">>
    /\ stderr # <<>> =>
          /\ writes = 0
          /\ ~resultFile.written
          /\ pc = "exited"
          /\ exitStatus = 1

C10_Witness ==
    /\ pc = "exited"
    /\ writes = 1
    /\ Len(detections) = 2
    /\ Len(image.drawn) = 2
    /\ Count("draw") = 2
====
